---- MODULE Spec2Model ----
(***************************************************************************)
(* A model of ThreadPool (src/ThreadPool.hpp): a mutex-protected FIFO task *)
(* queue served by worker threads, two condition variables, four counters  *)
(* and a stop flag.                                                        *)
(*                                                                         *)
(* Granularity.  A section of code that runs with _mutex held is one       *)
(* action.  Every access the code makes WITHOUT the mutex is a step of its *)
(* own, so that the other threads interleave with it: the read of _stop in *)
(* Invoke, the notify calls made after unlocking, the read and the write   *)
(* of `_num_started++`, the read of `_num_started + _num_detached` in      *)
(* WaitTillAll, and the loops over _threads (detach, join).                *)
(*                                                                         *)
(* Condition variables.  wait(lock, pred) is `while (!pred()) wait(lock)`: *)
(* a thread that finds its predicate false blocks; a notification (or a    *)
(* spurious wake-up) makes it runnable again and it re-evaluates the       *)
(* predicate with the mutex held.  notify_one wakes one blocked thread of  *)
(* that condition variable, any of them; notify_all wakes them all.        *)
(*                                                                         *)
(* Client threads.  Clients call the public operations.  Operations that   *)
(* walk or resize _threads without the mutex (Detach, ResetThreadNum,      *)
(* StopForced, the destructor) are not overlapped with each other: that    *)
(* would be a race on the std::vector itself.  The destructor runs when no *)
(* other call is in progress, and ends the object's use.                   *)
(***************************************************************************)
EXTENDS Integers, Sequences, FiniteSets, TLC

\* ------------------------------------------------------------------ bounds
\* Largest thread count given to the constructor or to ResetThreadNum.
MaxThreads == 2
\* Worker threads ever spawned (constructor plus later growth).
MaxSpawn == 3
\* Calls a client thread makes when clients call anything in any order.
MaxCalls == 2
\* Tasks a client thread submits in a scenario.
MaxSubmit == 3
\* Tasks the second thread submits where it races with the caller's Stop.
MaxRacing == 1

Clients == {"A", "B"}
Workers == 1..MaxSpawn
Tasks == 1..((IF MaxSubmit > MaxCalls THEN MaxSubmit ELSE MaxCalls)
             * Cardinality(Clients))

VARIABLES
    _threads,       \* std::vector<std::thread>: sequence of [w, joinable]
    _tasks,         \* std::queue of tasks: sequence of task ids, front first
    _num_threads,
    _num_started,
    _num_killed,
    _num_finished,
    _num_detached,
    _stop,
    wpc,            \* worker -> "unborn" | "ready" | "blocked" | "running" | "exited"
    cur,            \* worker -> id of the task it is running, 0 when none
    pc,             \* client -> its position in the call it is making
    loc,            \* client -> the locals of that call
    calls,          \* client -> calls begun so far
    op,             \* client -> the operation it is in, or was in last
    ret,            \* client -> how its last call ended
    life,           \* "alive" | "destroyed" | "terminated"
    issued,         \* ids given to accepted tasks so far
    fate            \* task id -> how often it was dequeued, finished, killed

vars == <<_threads, _tasks, _num_threads, _num_started, _num_killed,
          _num_finished, _num_detached, _stop, wpc, cur, pc, loc, calls,
          op, ret, life, issued, fate>>

counters == <<_num_started, _num_killed, _num_finished, _num_detached>>
pool == <<_threads, _tasks, _num_threads, _stop>>
ghost == <<issued, fate>>
called == <<calls, op>>

NoLoc == [n |-> 0, ign |-> FALSE, i |-> 0, k |-> 0, tmp |-> 0]

\* ------------------------------------------------------------- constructor
\* ThreadPool(num_threads): num_threads workers, started at once.
Construct(n) ==
    /\ _threads = [i \in 1..n |-> [w |-> i, joinable |-> TRUE]]
    /\ _tasks = << >>
    /\ _num_threads = n
    /\ _num_started = 0
    /\ _num_killed = 0
    /\ _num_finished = 0
    /\ _num_detached = 0
    /\ _stop = FALSE
    /\ wpc = [w \in Workers |-> IF w <= n THEN "ready" ELSE "unborn"]
    /\ cur = [w \in Workers |-> 0]
    /\ pc = [c \in Clients |-> "idle"]
    /\ loc = [c \in Clients |-> NoLoc]
    /\ calls = [c \in Clients |-> 0]
    /\ op = [c \in Clients |-> "none"]
    /\ ret = [c \in Clients |-> "none"]
    /\ life = "alive"
    /\ issued = 0
    /\ fate = [t \in Tasks |-> [deq |-> 0, fin |-> 0, kill |-> 0]]

Init == \E n \in 0..MaxThreads : Construct(n)

\* ------------------------------------------------------ condition variables
\* Threads blocked on _condition: workers, and clients in WaitTillNoPending.
BlockedWorkers(wp) == {w \in Workers : wp[w] = "blocked"}
BlockedNoPending(cp) == {c \in Clients : cp[c] = "np_blocked"}
\* Threads blocked on _condition_finished: clients in WaitTill.
BlockedWaitTill(cp) == {c \in Clients : cp[c] = "wt_blocked"}

\* _condition.notify_one(), reached with worker and client positions wp, cp.
NotifyOne(wp, cp) ==
    \/ /\ BlockedWorkers(wp) = {} /\ BlockedNoPending(cp) = {}
       /\ wpc' = wp /\ pc' = cp
    \/ \E w \in BlockedWorkers(wp) :
           wpc' = [wp EXCEPT ![w] = "ready"] /\ pc' = cp
    \/ \E c \in BlockedNoPending(cp) :
           wpc' = wp /\ pc' = [cp EXCEPT ![c] = "np_check"]

\* notify_all that reaches no worker.
NoWorkerWoken(wp) == wp

\* _condition.notify_all()
WokenWorkers(wp) == [w \in Workers |-> IF wp[w] = "blocked" THEN "ready" ELSE wp[w]]
WokenNoPending(cp) == [c \in Clients |-> IF cp[c] = "np_blocked" THEN "np_check" ELSE cp[c]]

\* A worker that finishes a task without notifying _condition_finished.
NoneWokenWaitTill(cp) == cp

\* _condition_finished.notify_all()
WokenWaitTill(cp) == [c \in Clients |-> IF cp[c] = "wt_blocked" THEN "wt_check" ELSE cp[c]]

\* The drain loop `while (!_tasks.empty()) { _tasks.pop(); _num_killed++; }`
Range(s) == {s[i] : i \in 1..Len(s)}
KilledFate(q) ==
    [t \in Tasks |-> IF t \in Range(q)
                     THEN [fate[t] EXCEPT !.kill = @ + 1] ELSE fate[t]]
\* A drain that empties the queue and counts one kill for it.
DrainCountsOnce ==
    /\ _num_killed' = _num_killed + (IF _tasks = << >> THEN 0 ELSE 1)
    /\ fate' = KilledFate(_tasks)
    /\ _tasks' = << >>

\* A drain that empties the queue and counts nothing.
DrainUncounted ==
    /\ _num_killed' = _num_killed
    /\ fate' = fate
    /\ _tasks' = << >>

Drain ==
    /\ _num_killed' = _num_killed + Len(_tasks)
    /\ fate' = KilledFate(_tasks)
    /\ _tasks' = << >>

\* ------------------------------------------------------------ worker loop
\* The wait predicate of the worker: !_tasks.empty() || _stop
WorkerPred == _tasks # << >> \/ _stop
\* The exit test made after the wait: _stop && _tasks.empty()
WorkerExitTest == _stop /\ _tasks = << >>

\* The predicate is false: the worker blocks on _condition.
WorkerBlock(w) ==
    /\ life # "terminated"
    /\ wpc[w] = "ready"
    /\ ~WorkerPred
    /\ wpc' = [wpc EXCEPT ![w] = "blocked"]
    /\ UNCHANGED <<pool, counters, cur, pc, loc, called, ret, life, ghost>>

\* Stop is set and nothing is queued: the thread function returns.
WorkerExit(w) ==
    /\ life # "terminated"
    /\ wpc[w] = "ready"
    /\ WorkerPred
    /\ WorkerExitTest
    /\ wpc' = [wpc EXCEPT ![w] = "exited"]
    /\ UNCHANGED <<pool, counters, cur, pc, loc, called, ret, life, ghost>>

\* A worker that takes the front task and leaves it in the queue.
NotPopped(q) == q

\* _tasks.pop()
Popped(q) == Tail(q)

\* Take the front task, notify_one, unlock, and start running the task.
WorkerDequeue(w) ==
    /\ life # "terminated"
    /\ wpc[w] = "ready"
    /\ WorkerPred
    /\ ~WorkerExitTest
    /\ cur' = [cur EXCEPT ![w] = Head(_tasks)]
    /\ _tasks' = Popped(_tasks)
    /\ fate' = [fate EXCEPT ![Head(_tasks)].deq = @ + 1]
    /\ NotifyOne([wpc EXCEPT ![w] = "running"], pc)
    /\ UNCHANGED <<_threads, _num_threads, _stop, counters, loc, called, ret,
                   life, issued>>

\* task() returns; with the mutex: _num_finished++, notify_all on
\* _condition_finished; back to the top of the loop.
WorkerFinish(w) ==
    /\ life # "terminated"
    /\ wpc[w] = "running"
    /\ _num_finished' = _num_finished + 1
    /\ fate' = [fate EXCEPT ![cur[w]].fin = @ + 1]
    /\ cur' = [cur EXCEPT ![w] = 0]
    /\ wpc' = [wpc EXCEPT ![w] = "ready"]
    /\ pc' = WokenWaitTill(pc)
    /\ UNCHANGED <<pool, _num_started, _num_killed, _num_detached, loc, called,
                   ret, life, issued>>

WorkerStep(w) ==
    \/ WorkerBlock(w)
    \/ WorkerExit(w)
    \/ WorkerDequeue(w)
    \/ WorkerFinish(w)

\* A blocked thread may wake with no notification; it re-evaluates its
\* predicate like a notified one.
SpuriousWakeup ==
    /\ life # "terminated"
    /\ \/ \E w \in BlockedWorkers(wpc) :
              wpc' = [wpc EXCEPT ![w] = "ready"] /\ pc' = pc
       \/ \E c \in BlockedNoPending(pc) :
              pc' = [pc EXCEPT ![c] = "np_check"] /\ wpc' = wpc
       \/ \E c \in BlockedWaitTill(pc) :
              pc' = [pc EXCEPT ![c] = "wt_check"] /\ wpc' = wpc
    /\ UNCHANGED <<pool, counters, cur, loc, called, ret, life, ghost>>

\* ------------------------------------------------------------ client calls
Alive == life # "terminated"
Destroying == \E d \in Clients : pc[d] \in {"ds_notify", "ds_loop"}
\* Positions inside an operation that walks or resizes _threads unlocked.
ThreadSetLabels == {"det_notify", "det_loop", "sf_notify", "rs_enter",
                    "rs_join", "ds_notify", "ds_loop"}
ThreadSetFree == \A d \in Clients : pc[d] \notin ThreadSetLabels

\* Client c may begin a call.
CanCall(c) ==
    /\ life = "alive"
    /\ ~Destroying
    /\ pc[c] = "idle"

Began(c, name) ==
    /\ calls' = [calls EXCEPT ![c] = @ + 1]
    /\ op' = [op EXCEPT ![c] = name]

\* ---- Invoke
\* Invoke without its test of _stop.
InvokeIgnoresStop == FALSE

\* `if (!_stop)`, read without the mutex.
InvokeSeesStop == _stop

InvokeCheck(c) ==
    /\ CanCall(c)
    /\ Began(c, "Invoke")
    /\ IF InvokeSeesStop
       THEN /\ ret' = [ret EXCEPT ![c] = "dropped"]
            /\ pc' = pc
       ELSE /\ ret' = [ret EXCEPT ![c] = "none"]
            /\ pc' = [pc EXCEPT ![c] = "inv_enq"]
    /\ UNCHANGED <<pool, counters, wpc, cur, loc, life, ghost>>

\* A queue that takes the new task at its front.
EmplaceAtFront(q, t) == <<t>> \o q

\* std::queue::emplace: the new task goes to the back.
Emplace(q, t) == Append(q, t)

\* With the mutex: _tasks.emplace(...)
InvokeEnqueue(c) ==
    /\ Alive
    /\ pc[c] = "inv_enq"
    /\ issued' = issued + 1
    /\ _tasks' = Emplace(_tasks, issued + 1)
    /\ pc' = [pc EXCEPT ![c] = "inv_notify"]
    /\ UNCHANGED <<_threads, _num_threads, _stop, counters, wpc, cur, loc,
                   called, ret, life, fate>>

\* After unlocking: _condition.notify_one()
InvokeNotify(c) ==
    /\ Alive
    /\ pc[c] = "inv_notify"
    /\ NotifyOne(wpc, [pc EXCEPT ![c] = "inv_read"])
    /\ UNCHANGED <<pool, counters, cur, loc, called, ret, life, ghost>>

\* `_num_started++` without the mutex: a read, then a write.
InvokeRead(c) ==
    /\ Alive
    /\ pc[c] = "inv_read"
    /\ loc' = [loc EXCEPT ![c].tmp = _num_started]
    /\ pc' = [pc EXCEPT ![c] = "inv_write"]
    /\ UNCHANGED <<pool, counters, wpc, cur, called, ret, life, ghost>>

InvokeWrite(c) ==
    /\ Alive
    /\ pc[c] = "inv_write"
    /\ _num_started' = loc[c].tmp + 1
    /\ loc' = [loc EXCEPT ![c] = NoLoc]
    /\ pc' = [pc EXCEPT ![c] = "idle"]
    /\ ret' = [ret EXCEPT ![c] = "void"]
    /\ UNCHANGED <<pool, _num_killed, _num_finished, _num_detached, wpc, cur,
                   called, life, ghost>>

\* ---- KillAllPending
KillAllPending(c) ==
    /\ CanCall(c)
    /\ Began(c, "KillAllPending")
    /\ Drain
    /\ ret' = [ret EXCEPT ![c] = "void"]
    /\ UNCHANGED <<_threads, _num_threads, _stop, _num_started, _num_finished,
                   _num_detached, wpc, cur, pc, loc, life, issued>>

\* ---- WaitTill
\* The wait predicate: (_num_finished + _num_killed) >= num_tasks, with
\* `|| _stop` unless _ignoreStopSignal.
WaitTillPred(n, ign) ==
    \/ _num_finished + _num_killed >= n
    \/ ~ign /\ _stop
\* WaitTill returning its wait condition instead of the finished count.
WaitTillResultCountsKilled(n) == _num_finished + _num_killed >= n

\* `return _num_finished >= num_tasks;`
WaitTillResult(n) == _num_finished >= n

\* The arguments are taken; the call is about to lock the mutex.  loc keeps
\* num_tasks and _ignoreStopSignal of the client's last WaitTill.
WaitTillEnter(c, n, ign) ==
    /\ loc' = [loc EXCEPT ![c] = [NoLoc EXCEPT !.n = n, !.ign = ign]]
    /\ pc' = [pc EXCEPT ![c] = "wt_check"]
    /\ ret' = [ret EXCEPT ![c] = "none"]
    /\ UNCHANGED <<pool, counters, wpc, cur, life, ghost>>

WaitTargets == 0..MaxCalls

WaitTill(c, n, ign) ==
    /\ CanCall(c)
    /\ Began(c, "WaitTill")
    /\ WaitTillEnter(c, n, ign)

\* ---- WaitTillAll: the argument _num_started + _num_detached is read
\* without the mutex, before WaitTill locks.
WaitTillAllTarget == _num_started + _num_detached

WaitTillAll(c, ign) ==
    /\ CanCall(c)
    /\ Began(c, "WaitTillAll")
    /\ WaitTillEnter(c, WaitTillAllTarget, ign)

\* With the mutex held (on entry, and again after each wake-up): return if
\* the predicate holds, block on _condition_finished otherwise.
WaitTillRecheck(c) ==
    /\ Alive
    /\ pc[c] = "wt_check"
    /\ IF WaitTillPred(loc[c].n, loc[c].ign)
       THEN /\ pc' = [pc EXCEPT ![c] = "idle"]
            /\ ret' = [ret EXCEPT ![c] =
                          IF WaitTillResult(loc[c].n) THEN "true" ELSE "false"]
       ELSE /\ pc' = [pc EXCEPT ![c] = "wt_blocked"]
            /\ ret' = ret
    /\ UNCHANGED <<pool, counters, wpc, cur, loc, called, life, ghost>>

\* ---- WaitTillNoPending: waits on _condition for _tasks.empty()
NoPendingEval(c) ==
    IF _tasks = << >>
    THEN /\ pc' = [pc EXCEPT ![c] = "idle"]
         /\ ret' = [ret EXCEPT ![c] = "void"]
    ELSE /\ pc' = [pc EXCEPT ![c] = "np_blocked"]
         /\ ret' = [ret EXCEPT ![c] = "none"]

WaitTillNoPending(c) ==
    /\ CanCall(c)
    /\ Began(c, "WaitTillNoPending")
    /\ NoPendingEval(c)
    /\ UNCHANGED <<pool, counters, wpc, cur, loc, life, ghost>>

NoPendingRecheck(c) ==
    /\ Alive
    /\ pc[c] = "np_check"
    /\ NoPendingEval(c)
    /\ UNCHANGED <<pool, counters, wpc, cur, loc, called, life, ghost>>

\* ---- Detach
\* With the mutex: _stop = true.
Detach(c) ==
    /\ CanCall(c)
    /\ ThreadSetFree
    /\ Began(c, "Detach")
    /\ _stop' = TRUE
    /\ pc' = [pc EXCEPT ![c] = "det_notify"]
    /\ ret' = [ret EXCEPT ![c] = "none"]
    /\ UNCHANGED <<_threads, _tasks, _num_threads, counters, wpc, cur, loc,
                   life, ghost>>

\* _condition.notify_all(), then the loop over _threads begins.
DetachNotify(c) ==
    /\ Alive
    /\ pc[c] = "det_notify"
    /\ wpc' = WokenWorkers(wpc)
    /\ IF _threads = << >>
       THEN /\ pc' = WokenNoPending([pc EXCEPT ![c] = "idle"])
            /\ ret' = [ret EXCEPT ![c] = "void"]
            /\ loc' = loc
       ELSE /\ pc' = WokenNoPending([pc EXCEPT ![c] = "det_loop"])
            /\ ret' = ret
            /\ loc' = [loc EXCEPT ![c].i = 1]
    /\ UNCHANGED <<pool, counters, cur, called, life, ghost>>

\* One iteration: thread.detach(); _num_detached++.  detach() on a thread
\* that is not joinable throws std::system_error, which leaves a noexcept
\* function: std::terminate.
DetachLoop(c) ==
    /\ Alive
    /\ pc[c] = "det_loop"
    /\ LET i == loc[c].i IN
       IF _threads[i].joinable
       THEN /\ _threads' = [_threads EXCEPT ![i].joinable = FALSE]
            /\ _num_detached' = _num_detached + 1
            /\ life' = life
            /\ IF i = Len(_threads)
               THEN /\ pc' = [pc EXCEPT ![c] = "idle"]
                    /\ ret' = [ret EXCEPT ![c] = "void"]
                    /\ loc' = [loc EXCEPT ![c] = NoLoc]
               ELSE /\ pc' = pc
                    /\ ret' = ret
                    /\ loc' = [loc EXCEPT ![c].i = i + 1]
       ELSE /\ life' = "terminated"
            /\ UNCHANGED <<_threads, _num_detached, pc, ret, loc>>
    /\ UNCHANGED <<_tasks, _num_threads, _stop, _num_started, _num_killed,
                   _num_finished, wpc, cur, called, ghost>>

\* ---- Stop
\* With the mutex: _stop = true and the drain loop.
StopBody(c, next) ==
    /\ _stop' = TRUE
    /\ Drain
    /\ pc' = [pc EXCEPT ![c] = next]
    /\ ret' = [ret EXCEPT ![c] = "none"]
    /\ UNCHANGED <<_threads, _num_threads, _num_started, _num_finished,
                   _num_detached, wpc, cur, loc, life, issued>>

Stop(c) ==
    /\ CanCall(c)
    /\ Began(c, "Stop")
    /\ StopBody(c, "stop_notify")

\* After unlocking: _condition.notify_all()
StopNotify(c) ==
    /\ Alive
    /\ pc[c] = "stop_notify"
    /\ wpc' = WokenWorkers(wpc)
    /\ pc' = WokenNoPending([pc EXCEPT ![c] = "idle"])
    /\ ret' = [ret EXCEPT ![c] = "void"]
    /\ UNCHANGED <<pool, counters, cur, loc, called, life, ghost>>

\* ---- ResetThreadNum
\* A join that returns without waiting for the thread.
JoinedAtOnce(w) == TRUE

\* std::thread::join returns once the thread function has returned.
Joined(w) == wpc[w] = "exited"

Spawned == Cardinality({w \in Workers : wpc[w] # "unborn"})
\* The workers emplace_back starts when the vector grows from `from` to `to`.
NewHandles(from, to) ==
    [j \in 1..(to - from) |-> [w |-> Spawned + j, joinable |-> TRUE]]
CanSpawn(k) == k > _num_threads => Spawned + (k - Len(_threads)) <= MaxSpawn

\* From the lock to the first unlock (shrink) or to the return (otherwise).
ResetBody(c, k) ==
    IF k < _num_threads
    THEN /\ _stop' = TRUE
         /\ Drain
         /\ wpc' = WokenWorkers(wpc)
         /\ pc' = WokenNoPending([pc EXCEPT ![c] = "rs_join"])
         /\ loc' = [loc EXCEPT ![c] = [NoLoc EXCEPT !.k = k, !.i = k + 1]]
         /\ ret' = [ret EXCEPT ![c] = "none"]
         /\ UNCHANGED <<_threads, _num_threads, _num_started, _num_finished,
                        _num_detached, cur, life, issued>>
    ELSE IF k > _num_threads
    THEN /\ _num_threads' = k
         /\ _threads' = _threads \o NewHandles(Len(_threads), k)
         /\ wpc' = [w \in Workers |->
                       IF w \in (Spawned + 1)..(Spawned + k - Len(_threads))
                       THEN "ready" ELSE wpc[w]]
         /\ pc' = [pc EXCEPT ![c] = "idle"]
         /\ loc' = [loc EXCEPT ![c] = NoLoc]
         /\ ret' = [ret EXCEPT ![c] = "void"]
         /\ UNCHANGED <<_tasks, _stop, counters, cur, life, ghost>>
    ELSE /\ pc' = [pc EXCEPT ![c] = "idle"]
         /\ loc' = [loc EXCEPT ![c] = NoLoc]
         /\ ret' = [ret EXCEPT ![c] = "void"]
         /\ UNCHANGED <<pool, counters, wpc, cur, life, ghost>>

ResetThreadNum(c, k) ==
    /\ CanCall(c)
    /\ ThreadSetFree
    /\ CanSpawn(k)
    /\ Began(c, "ResetThreadNum")
    /\ ResetBody(c, k)

\* The join loop of the shrink path, run without the mutex: join() returns
\* once the thread function has returned.
ResetJoin(c) ==
    /\ Alive
    /\ pc[c] = "rs_join"
    /\ loc[c].i <= _num_threads
    /\ LET h == _threads[loc[c].i] IN
       IF h.joinable
       THEN /\ Joined(h.w)
            /\ _threads' = [_threads EXCEPT ![loc[c].i].joinable = FALSE]
       ELSE _threads' = _threads
    /\ loc' = [loc EXCEPT ![c].i = @ + 1]
    /\ UNCHANGED <<_tasks, _num_threads, _stop, counters, wpc, cur, pc,
                   called, ret, life, ghost>>

\* lock.lock(); _threads.resize(num_threads); _num_threads = num_threads;
\* _stop = false;
ResetFinal(c) ==
    /\ Alive
    /\ pc[c] = "rs_join"
    /\ loc[c].i > _num_threads
    /\ _threads' = SubSeq(_threads, 1, loc[c].k)
    /\ _num_threads' = loc[c].k
    /\ _stop' = FALSE
    /\ pc' = [pc EXCEPT ![c] = "idle"]
    /\ loc' = [loc EXCEPT ![c] = NoLoc]
    /\ ret' = [ret EXCEPT ![c] = "void"]
    /\ UNCHANGED <<_tasks, counters, wpc, cur, called, life, ghost>>

\* ---- StopForced: the body of Stop, then ResetThreadNum(0)
StopForced(c) ==
    /\ CanCall(c)
    /\ ThreadSetFree
    /\ Began(c, "StopForced")
    /\ StopBody(c, "sf_notify")

StopForcedNotify(c) ==
    /\ Alive
    /\ pc[c] = "sf_notify"
    /\ wpc' = WokenWorkers(wpc)
    /\ pc' = WokenNoPending([pc EXCEPT ![c] = "rs_enter"])
    /\ UNCHANGED <<pool, counters, cur, loc, called, ret, life, ghost>>

StopForcedReset(c) ==
    /\ Alive
    /\ pc[c] = "rs_enter"
    /\ ResetBody(c, 0)
    /\ UNCHANGED called

\* ---- ~ThreadPool: Destroy
OthersIdle(c) == \A d \in Clients \ {c} : pc[d] = "idle"

\* With the mutex: _stop = true.
Destroy(c) ==
    /\ CanCall(c)
    /\ OthersIdle(c)
    /\ Began(c, "Destroy")
    /\ _stop' = TRUE
    /\ pc' = [pc EXCEPT ![c] = "ds_notify"]
    /\ ret' = [ret EXCEPT ![c] = "none"]
    /\ UNCHANGED <<_threads, _tasks, _num_threads, counters, wpc, cur, loc,
                   life, ghost>>

DestroyNotify(c) ==
    /\ Alive
    /\ pc[c] = "ds_notify"
    /\ wpc' = WokenWorkers(wpc)
    /\ IF _threads = << >>
       THEN /\ pc' = [pc EXCEPT ![c] = "idle"]
            /\ ret' = [ret EXCEPT ![c] = "void"]
            /\ loc' = loc
            /\ life' = "destroyed"
       ELSE /\ pc' = [pc EXCEPT ![c] = "ds_loop"]
            /\ ret' = ret
            /\ loc' = [loc EXCEPT ![c].i = 1]
            /\ life' = life
    /\ UNCHANGED <<pool, counters, cur, called, ghost>>

\* One iteration: `if (thread.joinable()) thread.join(); _num_killed++;`
DestroyLoop(c) ==
    /\ Alive
    /\ pc[c] = "ds_loop"
    /\ LET i == loc[c].i
           h == _threads[i] IN
       /\ IF h.joinable
          THEN /\ Joined(h.w)
               /\ _threads' = [_threads EXCEPT ![i].joinable = FALSE]
          ELSE _threads' = _threads
       /\ _num_killed' = _num_killed + 1
       /\ IF i = Len(_threads)
          THEN /\ pc' = [pc EXCEPT ![c] = "idle"]
               /\ ret' = [ret EXCEPT ![c] = "void"]
               /\ loc' = [loc EXCEPT ![c] = NoLoc]
               /\ life' = "destroyed"
          ELSE /\ pc' = pc
               /\ ret' = ret
               /\ loc' = [loc EXCEPT ![c].i = i + 1]
               /\ life' = life
    /\ UNCHANGED <<_tasks, _num_threads, _stop, _num_started, _num_finished,
                   _num_detached, wpc, cur, called, ghost>>

\* ------------------------------------------------------------ specification
\* Steps that continue a call client c is in.
InvokeRest(c) ==
    \/ InvokeEnqueue(c)
    \/ InvokeNotify(c)
    \/ InvokeRead(c)
    \/ InvokeWrite(c)

DetachRest(c) ==
    \/ DetachNotify(c)
    \/ DetachLoop(c)

ResetRest(c) ==
    \/ ResetJoin(c)
    \/ ResetFinal(c)

StopForcedRest(c) ==
    \/ StopForcedNotify(c)
    \/ StopForcedReset(c)

DestroyRest(c) ==
    \/ DestroyNotify(c)
    \/ DestroyLoop(c)

Continue(c) ==
    \/ InvokeRest(c)
    \/ WaitTillRecheck(c)
    \/ NoPendingRecheck(c)
    \/ DetachRest(c)
    \/ StopNotify(c)
    \/ ResetRest(c)
    \/ StopForcedRest(c)
    \/ DestroyRest(c)

\* A client begins at most MaxCalls calls.
Budget(c) == calls[c] < MaxCalls

\* Any client calls any operation, in any order and interleaving.
Next ==
    \/ \E w \in Workers : WorkerStep(w)
    \/ SpuriousWakeup
    \/ \E c \in Clients : Continue(c)
    \/ \E c \in Clients : Budget(c) /\ InvokeCheck(c)
    \/ \E c \in Clients : Budget(c) /\ KillAllPending(c)
    \/ \E c \in Clients, n \in WaitTargets, ign \in BOOLEAN :
           Budget(c) /\ WaitTill(c, n, ign)
    \/ \E c \in Clients, ign \in BOOLEAN : Budget(c) /\ WaitTillAll(c, ign)
    \/ \E c \in Clients : Budget(c) /\ WaitTillNoPending(c)
    \/ \E c \in Clients : Budget(c) /\ Detach(c)
    \/ \E c \in Clients : Budget(c) /\ Stop(c)
    \/ \E c \in Clients, k \in 0..MaxThreads :
           Budget(c) /\ ResetThreadNum(c, k)
    \/ \E c \in Clients : Budget(c) /\ StopForced(c)
    \/ \E c \in Clients : Budget(c) /\ Destroy(c)

Spec == Init /\ [][Next]_vars

\* Scheduling: a runnable worker thread is eventually scheduled and a task,
\* once started, returns; a client that is inside a call and runnable is
\* eventually scheduled.  Nothing obliges a client to begin a call, nor a
\* blocked thread to wake spuriously.
WorkerFair == \A w \in Workers : WF_vars(WorkerStep(w))
ClientFair == \A c \in Clients : WF_vars(Continue(c))
Fairness == WorkerFair /\ ClientFair

\* ---------------------------------------------------------------- scenarios
\* Client programs of the shape the contract's scenarios describe.  "A" is
\* the caller of the scenario; where a second thread takes part it is "B".
\* A client of a scenario submits at most MaxSubmit tasks.
Caller == "A"
Other == "B"

\* The client has made only Invoke calls so far (or none).
Submitting(c) == op[c] \in {"none", "Invoke"}
MaySubmit(c) == Submitting(c) /\ calls[c] < MaxSubmit
Last(c, name) == op[c] = name
Returned(c, name) == op[c] = name /\ pc[c] = "idle"

PoolSteps ==
    \/ \E w \in Workers : WorkerStep(w)
    \/ SpuriousWakeup

\* N x Invoke, then WaitTillAll(false); the pool is destroyed afterwards.
SubmitWaitNext ==
    \/ PoolSteps
    \/ MaySubmit(Caller) /\ InvokeCheck(Caller)
    \/ InvokeRest(Caller)
    \/ Submitting(Caller) /\ WaitTillAll(Caller, FALSE)
    \/ WaitTillRecheck(Caller)
    \/ Returned(Caller, "WaitTillAll") /\ Destroy(Caller)
    \/ DestroyRest(Caller)

SubmitWaitSpec == Init /\ [][SubmitWaitNext]_vars /\ Fairness

\* N x Invoke, KillAllPending, then WaitTillAll(true); the pool is
\* destroyed afterwards.
KillWaitNext ==
    \/ PoolSteps
    \/ MaySubmit(Caller) /\ InvokeCheck(Caller)
    \/ InvokeRest(Caller)
    \/ Submitting(Caller) /\ KillAllPending(Caller)
    \/ Last(Caller, "KillAllPending") /\ WaitTillAll(Caller, TRUE)
    \/ WaitTillRecheck(Caller)
    \/ Returned(Caller, "WaitTillAll") /\ Destroy(Caller)
    \/ DestroyRest(Caller)

KillWaitSpec == Init /\ [][KillWaitNext]_vars /\ Fairness

\* The caller submits and then calls Stop; another thread submits at any
\* time, also while and after Stop runs.  The caller submits at most
\* MaxCalls tasks, the other thread at most MaxRacing.
StopNext ==
    \/ PoolSteps
    \/ Submitting(Caller) /\ calls[Caller] < MaxCalls /\ InvokeCheck(Caller)
    \/ calls[Other] < MaxRacing /\ InvokeCheck(Other)
    \/ \E c \in Clients : InvokeRest(c)
    \/ Submitting(Caller) /\ Stop(Caller)
    \/ StopNotify(Caller)

StopSpec == Init /\ [][StopNext]_vars /\ Fairness

\* The caller submits, shrinks the pool to k workers, 0 < k < current, and
\* submits again.
ShrinkNext ==
    \/ PoolSteps
    \/ calls[Caller] <= MaxSubmit /\ InvokeCheck(Caller)
    \/ InvokeRest(Caller)
    \/ \E k \in 1..MaxThreads :
           /\ Submitting(Caller)
           /\ k < _num_threads
           /\ ResetThreadNum(Caller, k)
    \/ ResetRest(Caller)

ShrinkSpec == Init /\ [][ShrinkNext]_vars /\ Fairness

\* The caller waits in WaitTill(n, false); another thread submits, kills the
\* pending tasks and stops the pool.
WaitStopNext ==
    \/ PoolSteps
    \/ \E n \in 1..MaxSubmit :
           Last(Caller, "none") /\ WaitTill(Caller, n, FALSE)
    \/ WaitTillRecheck(Caller)
    \/ MaySubmit(Other) /\ InvokeCheck(Other)
    \/ InvokeRest(Other)
    \/ Submitting(Other) /\ KillAllPending(Other)
    \/ ~Last(Other, "Stop") /\ Stop(Other)
    \/ StopNotify(Other)

WaitStopSpec == Init /\ [][WaitStopNext]_vars /\ Fairness

\* N x Invoke, Detach, then WaitTillAll(true).
DetachWaitNext ==
    \/ PoolSteps
    \/ MaySubmit(Caller) /\ InvokeCheck(Caller)
    \/ InvokeRest(Caller)
    \/ Submitting(Caller) /\ Detach(Caller)
    \/ DetachRest(Caller)
    \/ Last(Caller, "Detach") /\ WaitTillAll(Caller, TRUE)
    \/ WaitTillRecheck(Caller)

DetachWaitSpec == Init /\ [][DetachWaitNext]_vars /\ Fairness

\* N x Invoke, then the pool is destroyed.
DestroyNext ==
    \/ PoolSteps
    \/ MaySubmit(Caller) /\ InvokeCheck(Caller)
    \/ InvokeRest(Caller)
    \/ Submitting(Caller) /\ Destroy(Caller)
    \/ DestroyRest(Caller)

DestroySpec == Init /\ [][DestroyNext]_vars /\ Fairness

\* The caller submits; another thread shrinks the pool once, to k workers,
\* 0 <= k < current, at any moment.
ResizeNext ==
    \/ PoolSteps
    \/ MaySubmit(Caller) /\ InvokeCheck(Caller)
    \/ InvokeRest(Caller)
    \/ \E k \in 0..MaxThreads :
           /\ Last(Other, "none")
           /\ k < _num_threads
           /\ ResetThreadNum(Other, k)
    \/ ResetRest(Other)

ResizeSpec == Init /\ [][ResizeNext]_vars /\ Fairness

\* The caller submits and calls StopForced, in any order.
StopForcedNext ==
    \/ PoolSteps
    \/ calls[Caller] <= MaxSubmit /\ InvokeCheck(Caller)
    \/ InvokeRest(Caller)
    \/ calls[Caller] <= MaxSubmit /\ StopForced(Caller)
    \/ StopForcedRest(Caller)
    \/ ResetRest(Caller)

StopForcedSpec == Init /\ [][StopForcedNext]_vars /\ Fairness

\* N x Invoke, then Detach, and Detach again.
DetachNext ==
    \/ PoolSteps
    \/ MaySubmit(Caller) /\ InvokeCheck(Caller)
    \/ InvokeRest(Caller)
    \/ calls[Caller] <= MaxSubmit /\ Detach(Caller)
    \/ DetachRest(Caller)

DetachSpec == Init /\ [][DetachNext]_vars /\ Fairness

\* Two threads submit and drain in any order: Invoke, KillAllPending, Stop,
\* StopForced and ResetThreadNum, at most MaxCalls calls each.
DrainNext ==
    \/ PoolSteps
    \/ \E c \in Clients : Budget(c) /\ InvokeCheck(c)
    \/ \E c \in Clients : InvokeRest(c)
    \/ \E c \in Clients : Budget(c) /\ KillAllPending(c)
    \/ \E c \in Clients : Budget(c) /\ Stop(c)
    \/ \E c \in Clients : StopNotify(c)
    \/ \E c \in Clients : Budget(c) /\ StopForced(c)
    \/ \E c \in Clients : StopForcedRest(c)
    \/ \E c \in Clients, k \in 0..MaxThreads :
           Budget(c) /\ ResetThreadNum(c, k)
    \/ \E c \in Clients : ResetRest(c)

DrainSpec == Init /\ [][DrainNext]_vars /\ Fairness

\* The caller calls WaitTillNoPending; another thread submits, kills the
\* pending tasks, and in the end may stop the pool.
NoPendingNext ==
    \/ PoolSteps
    \/ Last(Caller, "none") /\ WaitTillNoPending(Caller)
    \/ NoPendingRecheck(Caller)
    \/ MaySubmit(Other) /\ InvokeCheck(Other)
    \/ InvokeRest(Other)
    \/ Submitting(Other) /\ KillAllPending(Other)
    \/ ~Last(Other, "Stop") /\ Stop(Other)
    \/ StopNotify(Other)

NoPendingSpec == Init /\ [][NoPendingNext]_vars /\ Fairness

\* Two threads submit concurrently; the pool is destroyed afterwards.
ConcurrentSubmitNext ==
    \/ PoolSteps
    \/ \E c \in Clients : MaySubmit(c) /\ InvokeCheck(c)
    \/ \E c \in Clients : InvokeRest(c)
    \/ Submitting(Caller) /\ Destroy(Caller)
    \/ DestroyRest(Caller)

ConcurrentSubmitSpec == Init /\ [][ConcurrentSubmitNext]_vars /\ Fairness

\* ================================================================== claims

\* A step in which client c returns from WaitTill(n, ignoreStopSignal =
\* false), called directly or through WaitTillAll(false).
WaitTillReturns(c) ==
    /\ pc[c] = "wt_check"
    /\ ~loc[c].ign
    /\ pc'[c] = "idle"

\* C2: in every reachable state, finished + killed <= started.
C2_FinishedPlusKilledAtMostStarted ==
    _num_finished + _num_killed <= _num_started

\* C3: no worker goes from waiting to running a task while _stop is set.
C3_NoTaskBeginsWhileStopped ==
    [][\A w \in Workers :
          (wpc[w] # "running" /\ wpc'[w] = "running") => ~_stop]_vars

\* C4: an Invoke that begins with _stop set returns at once and leaves the
\* queue and the four counters as they were.
C4_InvokeOnStoppedPoolIsNoOp ==
    [][\A c \in Clients :
          (calls'[c] = calls[c] + 1 /\ op'[c] = "Invoke" /\ _stop)
          => /\ pc'[c] = "idle"
             /\ UNCHANGED <<_tasks, _num_started, _num_finished, _num_killed,
                            _num_detached>>]_vars

\* C4 witness: an Invoke was dropped and the pool is still stopped, with
\* nothing queued by it.
C4_Witness ==
    \E c \in Clients :
        /\ op[c] = "Invoke" /\ ret[c] = "dropped" /\ pc[c] = "idle"
        /\ _stop
        /\ issued = 0

\* C7 as stated: WaitTill(n, false) returns true iff finished >= n at the
\* return, and when it returns false the pool is stopped.
C7_FalseMeansStopped ==
    [][\A c \in Clients :
          WaitTillReturns(c)
          => /\ (ret'[c] = "true") <=> (_num_finished' >= loc[c].n)
             /\ (ret'[c] = "false") => _stop']_vars

\* C7 amended: WaitTill(n, false) returns true iff finished >= n at the
\* return, and when it returns false the pool is stopped or
\* finished + killed >= n (killed tasks made up the count).
C7_FalseMeansStoppedOrKilled ==
    [][\A c \in Clients :
          WaitTillReturns(c)
          => /\ ret'[c] \in {"true", "false"}
             /\ (ret'[c] = "true") <=> (_num_finished' >= loc[c].n)
             /\ (ret'[c] = "false")
                => (_stop' \/ _num_finished' + _num_killed' >= loc[c].n)]_vars

\* C7 witness: a WaitTill(n, false) has returned false on a pool that is
\* not stopped, and another has returned true.
C7_Witness ==
    /\ \E c \in Clients :
          /\ op[c] \in {"WaitTill", "WaitTillAll"} /\ pc[c] = "idle"
          /\ ~loc[c].ign /\ ret[c] = "false" /\ ~_stop
          /\ _num_finished < loc[c].n
    /\ \E c \in Clients :
          /\ op[c] \in {"WaitTill", "WaitTillAll"} /\ pc[c] = "idle"
          /\ ~loc[c].ign /\ ret[c] = "true" /\ loc[c].n > 0

\* ---- helpers of the scenario claims
Accepted == 1..issued
KilledTasks == {t \in Tasks : fate[t].kill > 0}
FinishedTasks == {t \in Tasks : fate[t].fin > 0}
Settled(t) == fate[t].fin + fate[t].kill > 0
AllExited == \A w \in Workers : wpc[w] \in {"unborn", "exited"}
InCall(c, name) == op[c] = name /\ pc[c] # "idle"

\* C1: N x Invoke by one caller on a pool with at least one worker, then
\* WaitTillAll(false): the call returns, it returns true, and at the return
\* finished = started = N and killed = 0.  (The caller has made N Invoke
\* calls and the WaitTillAll call: N = calls - 1.)
C1_SubmitThenWaitAll ==
    /\ [](Returned(Caller, "WaitTillAll") /\ _num_threads >= 1
          => /\ ret[Caller] = "true"
             /\ _num_finished = calls[Caller] - 1
             /\ _num_started = calls[Caller] - 1
             /\ _num_killed = 0)
    /\ (InCall(Caller, "WaitTillAll") /\ _num_threads >= 1)
           ~> Returned(Caller, "WaitTillAll")

\* C1 witness: WaitTillAll(false) has returned true after MaxSubmit tasks.
C1_Witness ==
    /\ Returned(Caller, "WaitTillAll")
    /\ ret[Caller] = "true"
    /\ _num_threads >= 1
    /\ calls[Caller] = MaxSubmit + 1
    /\ _num_finished = MaxSubmit

\* C5: once ResetThreadNum(k), 0 < k < thread count, has returned, _stop is
\* false and every task queued from then on is eventually run to completion.
\* (Where only shrinks resize the pool, a shrink has returned exactly when
\* _num_threads is below the number of workers spawned.)
Shrunk == 1 <= _num_threads /\ _num_threads < Spawned
C5_PoolUsableAfterShrink ==
    /\ [](Returned(Caller, "ResetThreadNum") /\ Shrunk => ~_stop)
    /\ \A t \in Tasks :
           (Shrunk /\ t \in Range(_tasks)) ~> (fate[t].fin > 0)

\* C6: a thread blocked in WaitTill(n, false) returns once
\* finished + killed >= n or once the pool is stopped (stated for pools
\* that have workers).
C6_BlockedWaitTillReturns ==
    \A c \in Clients :
        (pc[c] = "wt_blocked" /\ ~loc[c].ign /\ WaitTillPred(loc[c].n, FALSE)
            /\ _num_threads >= 1)
            ~> Returned(c, "WaitTill")

\* C8: N x Invoke, KillAllPending, WaitTillAll(true) by one caller: the wait
\* returns, with finished + killed = started = N; killed is the number of
\* tasks that were in the queue when KillAllPending ran; no killed task is
\* ever dequeued by a worker.
KillStep(c) == op'[c] = "KillAllPending" /\ calls'[c] = calls[c] + 1
C8_KillThenWaitAll ==
    /\ [][KillStep(Caller)
          => /\ _num_killed' = Len(_tasks)
             /\ KilledTasks' = Range(_tasks)
             /\ _tasks' = << >>]_vars
    /\ [](Returned(Caller, "WaitTillAll")
          => /\ _num_finished + _num_killed = _num_started
             /\ _num_started = calls[Caller] - 2
             /\ _num_killed = Cardinality(KilledTasks)
             /\ _num_finished = Cardinality(FinishedTasks))
    /\ [](\A t \in Tasks : fate[t].kill > 0 => fate[t].deq = 0)
    /\ InCall(Caller, "WaitTillAll") ~> Returned(Caller, "WaitTillAll")

\* C8 witness: the wait has returned with some tasks killed and some
\* finished.
C8_Witness ==
    /\ Returned(Caller, "WaitTillAll")
    /\ _num_killed >= 1
    /\ _num_finished >= 1
    /\ _num_finished + _num_killed = MaxSubmit

\* C9: Stop counts every task pending at the call as killed, and none of
\* them is ever dequeued; after Stop has returned, every task a worker has
\* dequeued is run to completion and counted finished, and every worker
\* exits.
StopCallStep(c) == op'[c] = "Stop" /\ calls'[c] = calls[c] + 1
C9_StopKillsPendingAndWorkersExit ==
    /\ [][StopCallStep(Caller)
          => /\ _stop'
             /\ _num_killed' = _num_killed + Len(_tasks)
             /\ \A t \in Range(_tasks) : fate'[t].kill = 1
             /\ _tasks' = << >>]_vars
    /\ [](\A t \in Tasks : fate[t].kill > 0 => fate[t].deq = 0)
    /\ [](_num_finished = Cardinality(FinishedTasks))
    /\ Returned(Caller, "Stop")
           ~> [](AllExited /\ \A t \in Tasks : fate[t].deq > 0 => fate[t].fin = 1)

\* C9 witness: Stop has returned on a pool with workers, having killed a
\* pending task while another was running; that one has finished and all
\* workers have exited.
C9_Witness ==
    /\ Returned(Caller, "Stop")
    /\ _num_threads >= 1
    /\ KilledTasks # {}
    /\ \E t \in FinishedTasks : \A u \in KilledTasks : t < u
    /\ AllExited

\* C10: a WaitTillAll(true) returns once every accepted task is finished or
\* killed, also after Detach.
C10_WaitTillAllIgnoringStopReturns ==
    (InCall(Caller, "WaitTillAll") /\ \A t \in Accepted : Settled(t))
        ~> Returned(Caller, "WaitTillAll")

\* C11: the destructor discards the tasks that are pending when it begins
\* (no worker dequeues a task once Destroy has begun; nothing is submitted
\* during destruction, so a task queued then was pending at its beginning),
\* and it returns only after every joinable worker has exited.
C11_DestroyDiscardsPendingAndJoins ==
    /\ [][Last(Caller, "Destroy")
          => \A t \in Tasks : fate'[t].deq = fate[t].deq]_vars
    /\ [](life = "destroyed"
          => \A i \in 1..Len(_threads) : wpc[_threads[i].w] = "exited")

DequeuedTasks == {t \in Tasks : fate[t].deq > 0}
AllDequeuedFinished == \A t \in DequeuedTasks : fate[t].fin = 1

\* C12: ResetThreadNum(k), k < current, kills every task that is pending
\* when it begins, each once, and none of them is ever dequeued; a task
\* that a worker has dequeued (so every task running when the shrink
\* begins) is finished, once, in the end; finished and killed count exactly
\* these tasks, so their sum grows by the queue length plus the number of
\* running tasks.
ShrinkStep(c) == op'[c] = "ResetThreadNum" /\ calls'[c] = calls[c] + 1
C12_ShrinkLosesNoTask ==
    /\ [][ShrinkStep(Other)
          => /\ _num_killed' = _num_killed + Len(_tasks)
             /\ \A t \in Range(_tasks) : fate'[t].kill = 1
             /\ _tasks' = << >>
             /\ UNCHANGED <<_num_finished, cur>>]_vars
    /\ [](\A t \in Tasks : fate[t].kill > 0 => fate[t].deq = 0)
    /\ [](/\ _num_finished = Cardinality(FinishedTasks)
          /\ _num_killed = Cardinality(KilledTasks)
          /\ \A t \in Tasks : fate[t].fin <= 1 /\ fate[t].kill <= 1)
    /\ []<>AllDequeuedFinished

\* C12 witness: a shrink is in progress; it has killed a pending task while
\* a task submitted before that one is still running.
C12_Witness ==
    /\ pc[Other] = "rs_join"
    /\ \E w \in Workers, u \in KilledTasks :
           wpc[w] = "running" /\ cur[w] < u

\* C13: when ResetThreadNum(k), k < current, returns, every worker with an
\* index >= k (counted from 0) has exited and runs no task; when
\* ResetThreadNum(0) returns, ThreadNum() is 0, no task is running and
\* FinishedNum() counts every task a worker has dequeued.  (In this scenario
\* the workers are those of the constructor: worker w has index w - 1.)
C13_ShrinkIsSynchronous ==
    [](Returned(Other, "ResetThreadNum")
       => /\ \A w \in Workers :
                 (_num_threads < w /\ w <= Spawned)
                 => (wpc[w] = "exited" /\ cur[w] = 0)
          /\ _num_threads = 0
             => /\ \A w \in Workers : wpc[w] # "running"
                /\ _num_finished = Cardinality(DequeuedTasks)
                /\ AllDequeuedFinished)

\* C13 witness: ResetThreadNum(0) has returned on a pool of one worker,
\* whose task is finished; the task queued behind it was killed.
C13_Witness ==
    /\ Returned(Other, "ResetThreadNum")
    /\ Spawned = 1
    /\ _num_threads = 0
    /\ _num_finished = 1
    /\ fate[1].fin = 1
    /\ fate[2].kill = 1

\* C14: when StopForced has returned, ThreadNum() is 0, every worker has
\* exited and been joined, and _stop is true; an Invoke that follows is
\* dropped.
InvokeStep(c) == op'[c] = "Invoke" /\ calls'[c] = calls[c] + 1
C14_StopForcedLeavesPoolStopped ==
    /\ [](Returned(Caller, "StopForced")
          => /\ _num_threads = 0
             /\ _threads = << >>
             /\ AllExited
             /\ _stop)
    /\ [][(Returned(Caller, "StopForced") /\ InvokeStep(Caller))
          => ret'[Caller] = "dropped"]_vars

\* C15: Detach on a pool holding k handles changes neither started,
\* finished, killed, ThreadNum() nor the queue in any of its steps; it runs
\* to its return; and when it has returned _stop is set, no handle is
\* joinable and detached has grown by k.  (The caller's calls are N accepted
\* Invokes followed by Detach calls, so it has made calls - issued Detach
\* calls.)
DetachActs(c) ==
    \/ op'[c] = "Detach" /\ calls'[c] = calls[c] + 1
    \/ /\ pc[c] \in {"det_notify", "det_loop"}
       /\ <<pc[c], loc[c], life>>' # <<pc[c], loc[c], life>>
C15_DetachFrame ==
    /\ [][DetachActs(Caller)
          => UNCHANGED <<_num_started, _num_finished, _num_killed,
                         _num_threads, _tasks>>]_vars
    /\ [](life # "terminated")
    /\ [](Returned(Caller, "Detach")
          => /\ _stop
             /\ \A i \in 1..Len(_threads) : ~_threads[i].joinable
             /\ _num_detached = Len(_threads) * (calls[Caller] - issued))

\* C16: tasks are dequeued in the order they were appended: when a worker
\* dequeues task t, no task appended after t has been dequeued before.
\* (Task ids are given in the order of the appends.)  Completion order is
\* free: see the witness.
C16_DequeueIsFifo ==
    [][\A t \in Tasks :
          fate'[t].deq > fate[t].deq
          => \A u \in Tasks : u > t => fate[u].deq = 0]_vars

\* C16 witness: two workers took tasks 1 and 2 in that order, and task 2 has
\* finished while task 1 is still running.
C16_Witness ==
    /\ \E w \in Workers : wpc[w] = "running" /\ cur[w] = 1
    /\ fate[2].deq = 1
    /\ fate[2].fin = 1
    /\ fate[1].fin = 0

\* C17: an accepted task is in the queue, once, exactly until it is dequeued
\* or killed; it is dequeued at most once, by one worker, or killed at most
\* once, never both; only a dequeued task finishes, once; every dequeued
\* task is finished in the end; finished and killed count these tasks.
C17_OneFatePerTask ==
    /\ [](/\ Len(_tasks) = Cardinality(Range(_tasks))
          /\ Range(_tasks) \subseteq Accepted
          /\ \A t \in Accepted :
                 (t \in Range(_tasks)) <=> (fate[t].deq + fate[t].kill = 0)
          /\ \A t \in Tasks :
                 /\ fate[t].deq + fate[t].kill <= 1
                 /\ fate[t].fin <= fate[t].deq
                 /\ Cardinality({w \in Workers : cur[w] = t})
                        = fate[t].deq - fate[t].fin
          /\ _num_finished = Cardinality(FinishedTasks)
          /\ _num_killed = Cardinality(KilledTasks))
    /\ []<>AllDequeuedFinished

\* C17 witness: of three accepted tasks one is finished, one is running and
\* one was killed.
C17_Witness ==
    \E t, u, v \in Accepted :
        /\ fate[t].fin = 1
        /\ fate[u].deq = 1 /\ fate[u].fin = 0
        /\ fate[v].kill = 1

\* C18: a thread blocked in WaitTillNoPending returns once the queue is
\* empty and stays empty (stated for pools that have workers).
C18_BlockedNoPendingReturns ==
    (/\ pc[Caller] = "np_blocked"
     /\ _num_threads >= 1
     /\ [](_tasks = << >>))
        ~> Returned(Caller, "WaitTillNoPending")

\* C19: when Invoke has appended task t to the queue of a pool that is not
\* stopped and has a worker waiting, a worker eventually dequeues t (unless
\* a drain kills it first), also while another thread is blocked in
\* WaitTillNoPending.
C19_SubmittedTaskIsDequeued ==
    \A t \in 1..MaxSubmit :
        (/\ pc[Other] = "inv_notify"
         /\ issued = t
         /\ ~_stop
         /\ BlockedWorkers(wpc) # {})
            ~> (fate[t].deq > 0 \/ fate[t].kill > 0)

\* C20: when every submitting thread has completed its Invoke calls on a
\* pool that was never stopped, StartedNum() is the number of tasks
\* appended to the queue.
C20_StartedCountsEveryAcceptedTask ==
    (\A c \in Clients : pc[c] = "idle" /\ Submitting(c))
        => _num_started = issued

====
